---- MODULE Spec2Model ----
(***************************************************************************)
(* A model of hns (src/hns/cli.py): one invocation of main(), which        *)
(* records microphone audio (AudioRecorder.record, with its display thread *)
(* and the audio callback), transcribes it (WhisperTranscriber.transcribe, *)
(* with its background worker), copies the transcript to the clipboard,    *)
(* saves the recording and prints the transcript.                          *)
(*                                                                         *)
(* Threads are modelled by interleaving: the main control flow (pc), the   *)
(* display thread update_timer (timer_pc), the PortAudio callback          *)
(* (AudioCallback) and the transcription worker (worker_pc).  No timing is *)
(* modelled: a sleep or a join timeout may end at any moment.              *)
(* KeyboardInterrupt is modelled inside the streaming region of record()   *)
(* (the `with stream:` body), where the code handles it.                   *)
(***************************************************************************)
EXTENDS Integers, Sequences, FiniteSets, TLC

\* ------------------------------------------------------------------ bounds
\* most frames the audio callback delivers in one session
MaxFrames == 2
\* most lines the display thread / the progress loop render
MaxTicks == 2
\* most segments one inference returns
MaxSegs == 2

\* ------------------------------------------------------------------ values
\* --channels and --sample-rate values: 0 is refused by the wave module
ChannelValues == {0, 1}
SampleRateValues == {0, 16000}

\* An exception in flight: its Python class, the failure it stands for and,
\* for a wrapped failure, what it wraps.
Exc(cls, kind, cause) == [cls |-> cls, kind |-> kind, cause |-> cause]
NoExc == Exc("none", "none", "none")

\* Texts are sequences of one-character strings.
Space == " "
SegmentTexts == { <<>>, <<" ">>, <<"a">>, <<" ", "B", "!", " ">> }

VARIABLES
    args,                   \* the command line: last, channels, sample_rate, model, language
    env,                    \* the environment: variables, platform, acceleration probe
    config_file,            \* ~/.config/hns/config.toml: whether it exists, its lines
    call,                   \* the entry point exercised, with its arguments and result
    cache_file,             \* last_recording.wav exists in the cache directory
    pc,                     \* position of the main control flow
    pending,                \* the exception propagating in the main control flow
    wave_file,              \* AudioRecorder.wave_file: "None" or "open"
    recording_frames,       \* AudioRecorder.recording_frames
    sink_frames,            \* frames written to the wave file of this session
    stream,                 \* the sounddevice InputStream
    recording_stopped,      \* the threading.Event of record()
    timer_pc,               \* position of the display thread update_timer
    timer_lines,            \* timer lines the display thread has rendered
    worker_pc,              \* position of transcribe_worker
    worker_out,             \* what the worker is about to put
    progress_queue,         \* queue.Queue of transcribe()
    transcription_complete, \* the threading.Event of transcribe()
    progress_lines,         \* "Transcribing ..." lines rendered
    handoff,                \* every put and get on progress_queue, by whom
    transcription,          \* the text transcribe() returned
    clipboard,              \* the system clipboard
    store,                  \* files written into save_dir
    stdout,                 \* lines printed on stdout_console
    trace,                  \* what the main control flow did and printed, in order
    exit_code               \* -1 while running, then the exit code of the process

recorder == <<wave_file, recording_frames, sink_frames, stream, recording_stopped>>
timer == <<timer_pc, timer_lines>>
transcriber == <<worker_pc, worker_out, progress_queue, transcription_complete,
                 progress_lines, handoff, transcription>>
outputs == <<clipboard, store, stdout>>
inputs == <<args, env, config_file, call>>
vars == <<inputs, cache_file, pc, pending, recorder, timer, transcriber, outputs,
          trace, exit_code>>

Log(e) == trace' = Append(trace, e)

\* the process has not exited: exit_code is -1 until it does
Running == exit_code < 0

\* None of Python; no text is equal to it
None == <<"None">>

\* bool(v) for a text or None
Truthy(v) == v # None /\ v # <<>>

\* model names used as inputs
Base == <<"b", "a", "s", "e">>
Small == <<"s", "m", "a", "l", "l">>
Turbo == <<"t", "u", "r", "b", "o">>
Bogus == <<"b", "o", "g", "u", "s">>
En == <<"e", "n">>

\* the names of the two backends
Whisper == <<"w", "h", "i", "s", "p", "e", "r">>
Parakeet == <<"p", "a", "r", "a", "k", "e", "e", "t">>

\* a line `key = raw` of the settings file
Line(key, raw) == [key |-> key, raw |-> raw]
NoFile == [exists |-> FALSE, readable |-> FALSE, lines |-> <<>>]
File(lines) == [exists |-> TRUE, readable |-> TRUE, lines |-> lines]
Unreadable == [exists |-> TRUE, readable |-> FALSE, lines |-> <<>>]

\* an environment with no variable of hns set
NoEnv ==
    [HNS_WHISPER_MODEL |-> None, HNS_LANG |-> None, HNS_BACKEND |-> None,
     HNS_MODEL |-> None, HNS_DEVICE |-> None, platform |-> "linux",
     acceleration |-> FALSE]

\* the settings the runs of main() are started with: nothing set; or an
\* unknown --model, HNS_LANG and a settings file naming a save_dir
MainSettings ==
    { [model |-> None, env |-> NoEnv, config_file |-> NoFile],
      [model |-> Bogus, env |-> [NoEnv EXCEPT !.HNS_LANG = En, !.HNS_BACKEND = Parakeet],
       config_file |-> File(<<Line("save_dir", <<"\"", "~", "/", "r", "\"">>)>>)] }

\* --------------------------------------------------------------- settings
\* a or b of Python, on texts and None
Or(a, b) == IF Truthy(a) THEN a ELSE b

\* a dict without keys; dict.get(key)
EmptyCfg == [k \in {} |-> None]
Get(cfg, key) == IF key \in DOMAIN cfg THEN cfg[key] ELSE None

\* tomllib: the escapes of a basic string, by the character after the backslash
Escapes ==
    [c \in {"\"", "\\", "t", "n"} |->
        CASE c = "t" -> "\t" [] c = "n" -> "\n" [] OTHER -> c]

Failed == [ok |-> FALSE, value |-> <<>>]

\* tomllib: a basic string after its opening quote, up to the closing quote
\* that has to end the line
RECURSIVE ParseBasicString(_)
ParseBasicString(rest) ==
    IF rest = <<>> THEN Failed
    ELSE IF Head(rest) = "\"" THEN [ok |-> Tail(rest) = <<>>, value |-> <<>>]
    ELSE IF Head(rest) = "\\"
           THEN IF Len(rest) >= 2 /\ rest[2] \in DOMAIN Escapes
                  THEN LET r == ParseBasicString(SubSeq(rest, 3, Len(rest)))
                       IN  [ok |-> r.ok, value |-> <<Escapes[rest[2]]>> \o r.value]
                  ELSE Failed
    ELSE LET r == ParseBasicString(Tail(rest))
         IN  [ok |-> r.ok, value |-> <<Head(rest)>> \o r.value]

\* tomllib: the value right of `key = `; the files here hold strings or
\* words that are no TOML value (null), or nothing
ParseTomlValue(raw) ==
    IF raw # <<>> /\ Head(raw) = "\"" THEN ParseBasicString(Tail(raw)) ELSE Failed

\* tomllib.load: every line has a value and no key is defined twice
TomlLoad(lines) ==
    LET parsed == [i \in DOMAIN lines |-> ParseTomlValue(lines[i].raw)]
        keys == { lines[i].key : i \in DOMAIN lines }
    IN  [ok |-> /\ \A i \in DOMAIN lines : parsed[i].ok
                /\ \A i, j \in DOMAIN lines : lines[i].key = lines[j].key => i = j,
         value |-> [k \in keys |->
                      parsed[CHOOSE i \in DOMAIN lines : lines[i].key = k].value]]

\* load_config() without its try/except
LoadConfig_Unguarded(file) ==
    IF ~file.exists THEN [raised |-> FALSE, warned |-> FALSE, value |-> EmptyCfg]
    ELSE LET r == TomlLoad(file.lines)
         IN  IF file.readable /\ r.ok
               THEN [raised |-> FALSE, warned |-> FALSE, value |-> r.value]
               ELSE [raised |-> TRUE, warned |-> FALSE, value |-> EmptyCfg]

\* load_config(): {} when there is no file; {} and a warning when open() or
\* tomllib.load raises
LoadConfig(file) ==
    IF ~file.exists THEN [raised |-> FALSE, warned |-> FALSE, value |-> EmptyCfg]
    ELSE LET r == TomlLoad(file.lines)
         IN  IF file.readable /\ r.ok
               THEN [raised |-> FALSE, warned |-> FALSE, value |-> r.value]
               ELSE [raised |-> FALSE, warned |-> TRUE, value |-> EmptyCfg]

\* main(): resolved_model with the layers in another order (file first)
ResolvedModel_FileFirst(model, e, cfg) ==
    Or(Get(cfg, "model"), Or(model, Or(e.HNS_WHISPER_MODEL, Base)))

\* main(): resolved_model, resolved_language
ResolvedModel(model, e, cfg) ==
    Or(model, Or(e.HNS_WHISPER_MODEL, Or(Get(cfg, "model"), Base)))

ResolvedLanguage(language, e, cfg) ==
    Or(language, Or(e.HNS_LANG, Or(Get(cfg, "language"), None)))

\* Path.home(), get_default_save_dir(), Path(raw).expanduser()
Home == <<"/", "h">>
DefaultSaveDir(platform) ==
    CASE platform = "win32" -> Home \o <<"/AppData/Roaming/hns/Recordings">>
      [] platform = "darwin" ->
            Home \o <<"/Library/Application Support/hns/recordings">>
      [] OTHER -> Home \o <<"/.local/share/hns/recordings">>
ExpandUser(path) ==
    IF path # <<>> /\ Head(path) = "~" /\ (Len(path) = 1 \/ path[2] = "/")
      THEN Home \o Tail(path) ELSE path

\* main(): save_dir
SaveDir(e, cfg) ==
    LET raw_save_dir == Get(cfg, "save_dir")
    IN  IF Truthy(raw_save_dir) THEN ExpandUser(raw_save_dir)
                                ELSE DefaultSaveDir(e.platform)

\* WhisperTranscriber.VALID_MODELS
VALID_MODELS ==
    { <<"t", "i", "n", "y", ".", "e", "n">>,
      <<"t", "i", "n", "y">>,
      <<"b", "a", "s", "e", ".", "e", "n">>,
      <<"b", "a", "s", "e">>,
      <<"s", "m", "a", "l", "l", ".", "e", "n">>,
      <<"s", "m", "a", "l", "l">>,
      <<"m", "e", "d", "i", "u", "m", ".", "e", "n">>,
      <<"m", "e", "d", "i", "u", "m">>,
      <<"l", "a", "r", "g", "e", "-", "v", "1">>,
      <<"l", "a", "r", "g", "e", "-", "v", "2">>,
      <<"l", "a", "r", "g", "e", "-", "v", "3">>,
      <<"l", "a", "r", "g", "e">>,
      <<"d", "i", "s", "t", "i", "l", "-", "l", "a", "r", "g", "e", "-", "v", "2">>,
      <<"d", "i", "s", "t", "i", "l", "-", "m", "e", "d", "i", "u", "m", ".", "e", "n">>,
      <<"d", "i", "s", "t", "i", "l", "-", "s", "m", "a", "l", "l", ".", "e", "n">>,
      <<"d", "i", "s", "t", "i", "l", "-", "l", "a", "r", "g", "e", "-", "v", "3">>,
      <<"d", "i", "s", "t", "i", "l", "-", "l", "a", "r", "g", "e", "-", "v", "3", ".", "5">>,
      <<"l", "a", "r", "g", "e", "-", "v", "3", "-", "t", "u", "r", "b", "o">>,
      <<"t", "u", "r", "b", "o">> }

\* _get_model_name that returns what was asked for
GetModelName_Unchecked(model_name, e) ==
    Or(model_name, IF e.HNS_WHISPER_MODEL = None THEN Base ELSE e.HNS_WHISPER_MODEL)

\* WhisperTranscriber._get_model_name
GetModelName(model_name, e) ==
    LET model == Or(model_name, IF e.HNS_WHISPER_MODEL = None
                                  THEN Base ELSE e.HNS_WHISPER_MODEL)
    IN  IF model \notin VALID_MODELS THEN Base ELSE model

\* WhisperTranscriber._load_model: the device and compute type of WhisperModel
Cpu == <<"c", "p", "u">>
Cuda == <<"c", "u", "d", "a">>
Tpu == <<"t", "p", "u">>
LoadModel == [device |-> Cpu, compute_type |-> "int8"]

\* ParakeetTranscriber and the selection of the backend: not in cli.py; after
\* tests/test_parakeet.py, tests/test_cli.py and the specification
ParakeetValidModels ==
    { <<"n", "e", "m", "o", "-", "p", "a", "r", "a", "k", "e", "e", "t", "-", "c", "t", "c", "-", "0", ".", "6", "b">>,
      <<"n", "e", "m", "o", "-", "p", "a", "r", "a", "k", "e", "e", "t", "-", "c", "t", "c", "-", "1", ".", "1", "b">> }
ParakeetDefaultModel == <<"n", "e", "m", "o", "-", "p", "a", "r", "a", "k", "e", "e", "t", "-", "c", "t", "c", "-", "0", ".", "6", "b">>
ParakeetGetModelName(model_name, e) ==
    LET model == Or(model_name, Or(e.HNS_MODEL, ParakeetDefaultModel))
    IN  IF model \notin ParakeetValidModels THEN ParakeetDefaultModel ELSE model
ResolvedBackend(backend, e, cfg) ==
    Or(backend, Or(e.HNS_BACKEND, Or(Get(cfg, "backend"), Whisper)))

\* _resolve_device of the two backends: not in cli.py; after
\* tests/test_whisper.py, tests/test_parakeet.py and the specification
ResolveDevice(device, e) ==
    LET requested == Or(device, e.HNS_DEVICE)
    IN  IF Truthy(requested) THEN (IF requested = Cuda THEN Cuda ELSE Cpu)
        ELSE IF e.acceleration THEN Cuda ELSE Cpu
WhisperResolveDevice(device, e) ==
    LET d == ResolveDevice(device, e)
    IN  [device |-> d, compute_type |-> IF d = Cuda THEN "float16" ELSE "int8"]
ParakeetResolveDevice(device, e) == ResolveDevice(device, e)

\* every variable but the inputs, before anything has run
Idle(at) ==
    /\ cache_file \in BOOLEAN
    /\ pc = at
    /\ pending = NoExc
    /\ wave_file = "None"
    /\ recording_frames = 0
    /\ sink_frames = 0
    /\ stream = "none"
    /\ recording_stopped = FALSE
    /\ timer_pc = "none"
    /\ timer_lines = 0
    /\ worker_pc = "none"
    /\ worker_out = <<>>
    /\ progress_queue = <<>>
    /\ transcription_complete = FALSE
    /\ progress_lines = 0
    /\ handoff = <<>>
    /\ transcription = <<>>
    /\ clipboard = <<>>
    /\ store = {}
    /\ stdout = <<>>
    /\ trace = <<>>
    /\ exit_code = -1

Init ==
    /\ \E last \in BOOLEAN, list_models \in BOOLEAN, channels \in ChannelValues,
          sample_rate \in SampleRateValues, settings \in MainSettings :
         /\ args = [last |-> last, list_models |-> list_models, channels |-> channels,
                    sample_rate |-> sample_rate, model |-> settings.model,
                    language |-> None]
         /\ env = settings.env
         /\ config_file = settings.config_file
    /\ call = [op |-> "main"]
    /\ Idle("start")

\* a main() that records although --last is given
MainStart_LastRecords ==
    /\ Running /\ pc = "start"
    /\ ~args.list_models
    /\ pc' = "validate"
    /\ UNCHANGED <<inputs, cache_file, pending, recorder, timer, transcriber, outputs,
                   trace, exit_code>>

\* a main() that ends a --last run without a previous recording with code 0
MainStart_MissingExitsZero ==
    /\ Running /\ pc = "start"
    /\ ~args.list_models
    /\ IF args.last
         THEN IF cache_file
                THEN /\ pc' = "init_transcriber"
                     /\ UNCHANGED <<pending, trace>>
                ELSE /\ Log("no_previous_recording")
                     /\ pending' = Exc("SystemExit", "exit_0", "none")
                     /\ pc' = "main_except"
         ELSE /\ pc' = "validate"
              /\ UNCHANGED <<pending, trace>>
    /\ UNCHANGED <<inputs, cache_file, recorder, timer, transcriber, outputs, exit_code>>

\* ------------------------------------------------------------ main: start
\* main() with --list-models: WhisperTranscriber.list_models() prints the
\* names of VALID_MODELS and the two environment variables; main() returns
ListModels ==
    /\ Running /\ pc = "start"
    /\ args.list_models
    /\ Log("whisper_models")
    /\ pc' = "listed"
    /\ exit_code' = 0
    /\ UNCHANGED <<inputs, cache_file, pending, recorder, timer, transcriber, outputs>>

\* main(), up to the choice between --last and a fresh recording.
MainStart ==
    /\ Running /\ pc = "start"
    /\ ~args.list_models
    /\ IF args.last
         THEN IF cache_file
                THEN /\ pc' = "init_transcriber"
                     /\ UNCHANGED <<pending, trace>>
                ELSE \* "No previous recording found", sys.exit(1)
                     /\ Log("no_previous_recording")
                     /\ pending' = Exc("SystemExit", "exit_1", "none")
                     /\ pc' = "main_except"
         ELSE /\ pc' = "validate"
              /\ UNCHANGED <<pending, trace>>
    /\ UNCHANGED <<inputs, cache_file, recorder, timer, transcriber, outputs, exit_code>>

\* ------------------------------------------------- AudioRecorder.record()
ValidateAudioDevice ==
    /\ Running /\ pc = "validate"
    /\ \E ok \in BOOLEAN :
         IF ok THEN /\ pc' = "prepare"
                    /\ UNCHANGED pending
               ELSE /\ pending' = Exc("RuntimeError", "DeviceError", "none")
                    /\ pc' = "main_except"
    /\ UNCHANGED <<inputs, cache_file, recorder, timer, transcriber, outputs, trace,
                   exit_code>>

\* _prepare_wave_file: wave.open, then the three setters; setnchannels and
\* setframerate raise wave.Error on a value below 1, after the file is open.
PrepareWaveFile ==
    /\ Running /\ pc = "prepare"
    /\ recording_frames' = 0
    /\ \E opened \in BOOLEAN :
         IF ~opened
           THEN /\ pending' = Exc("OSError", "WaveOpenError", "none")
                /\ pc' = "main_except"
                /\ UNCHANGED <<wave_file, sink_frames, cache_file, trace>>
           ELSE /\ wave_file' = "open"
                /\ sink_frames' = 0
                /\ cache_file' = TRUE
                /\ Log("open_sink")
                /\ IF args.channels < 1 \/ args.sample_rate <= 0
                     THEN /\ pending' = Exc("wave.Error", "WaveParamError", "none")
                          /\ pc' = "main_except"
                     ELSE /\ pc' = "open_stream"
                          /\ UNCHANGED pending
    /\ UNCHANGED <<inputs, stream, recording_stopped, timer, transcriber, outputs,
                   exit_code>>

\* _close_wave_file
CloseWaveFile ==
    IF wave_file = "open"
      THEN /\ wave_file' = "None"
           /\ Log("close_sink")
      ELSE UNCHANGED <<wave_file, trace>>

\* sd.InputStream(...): a failure closes the wave file and raises RuntimeError
OpenStream ==
    /\ Running /\ pc = "open_stream"
    /\ \E ok \in BOOLEAN :
         IF ok THEN /\ stream' = "created"
                    /\ recording_stopped' = FALSE
                    /\ pc' = "enter_stream"
                    /\ UNCHANGED <<wave_file, trace, pending>>
               ELSE /\ CloseWaveFile
                    /\ pending' = Exc("RuntimeError", "StreamInitError", "none")
                    /\ pc' = "main_except"
                    /\ UNCHANGED <<stream, recording_stopped>>
    /\ UNCHANGED <<inputs, cache_file, recording_frames, sink_frames, timer,
                   transcriber, outputs, exit_code>>

\* `with stream:` starts the stream; a failure to start leaves the with
\* statement without running its exit
EnterStream ==
    /\ Running /\ pc = "enter_stream"
    /\ \E ok \in BOOLEAN :
         IF ok THEN /\ stream' = "active"
                    /\ pc' = "start_timer"
                    /\ UNCHANGED pending
               ELSE /\ pending' = Exc("PortAudioError", "StreamStartError", "none")
                    /\ pc' = "finally_set"
                    /\ UNCHANGED stream
    /\ UNCHANGED <<inputs, cache_file, wave_file, recording_frames, sink_frames,
                   recording_stopped, timer, transcriber, outputs, trace, exit_code>>

StartTimer ==
    /\ Running /\ pc = "start_timer"
    /\ timer_pc' = "check"
    /\ pc' = "wait_input"
    /\ UNCHANGED <<inputs, cache_file, pending, recorder, timer_lines, transcriber,
                   outputs, trace, exit_code>>

\* input() returns: the user pressed enter
InputEnter ==
    /\ Running /\ pc = "wait_input"
    /\ pc' = "set_stop"
    /\ UNCHANGED <<inputs, cache_file, pending, recorder, timer, transcriber, outputs,
                   trace, exit_code>>

\* input() raises EOFError: standard input is closed
InputEOF ==
    /\ Running /\ pc = "wait_input"
    /\ pending' = Exc("EOFError", "InputClosed", "none")
    /\ pc' = "with_exit"
    /\ UNCHANGED <<inputs, cache_file, recorder, timer, transcriber, outputs, trace,
                   exit_code>>

\* KeyboardInterrupt anywhere in the body of `with stream:`
InStreamBody == pc \in {"start_timer", "wait_input", "set_stop", "join", "clear"}

Interrupt ==
    /\ Running /\ InStreamBody
    /\ pending' = Exc("KeyboardInterrupt", "Interrupt", "none")
    /\ pc' = "with_exit"
    /\ UNCHANGED <<inputs, cache_file, recorder, timer, transcriber, outputs, trace,
                   exit_code>>

\* recording_stopped.set()
SetStopFlag ==
    IF recording_stopped
      THEN UNCHANGED <<recording_stopped, trace>>
      ELSE /\ recording_stopped' = TRUE
           /\ Log("set_stop")

SetStop ==
    /\ Running /\ pc = "set_stop"
    /\ SetStopFlag
    /\ pc' = "join"
    /\ UNCHANGED <<inputs, cache_file, pending, wave_file, recording_frames,
                   sink_frames, stream, timer, transcriber, outputs, exit_code>>

\* timer_thread.join() without a timeout
JoinTimer_Unbounded ==
    /\ Running /\ pc = "join"
    /\ timer_pc = "done"
    /\ Log("join")
    /\ pc' = "clear"
    /\ UNCHANGED <<inputs, cache_file, pending, recorder, timer, transcriber, outputs,
                   exit_code>>

\* timer_thread.join(timeout=2): returns when the thread has ended, or when
\* the timeout expires with the thread still alive
JoinTimer ==
    /\ Running /\ pc = "join"
    /\ \/ /\ timer_pc = "done"
          /\ Log("join")
       \/ /\ timer_pc # "done"
          /\ Log("join_timeout")
    /\ pc' = "clear"
    /\ UNCHANGED <<inputs, cache_file, pending, recorder, timer, transcriber, outputs,
                   exit_code>>

\* console.print(" " * 50, end="\r")
ClearLine ==
    /\ Running /\ pc = "clear"
    /\ Log("clear_line")
    /\ pc' = "with_exit"
    /\ UNCHANGED <<inputs, cache_file, pending, recorder, timer, transcriber, outputs,
                   exit_code>>

\* a `with stream:` whose exit leaves the stream running
WithExit_StreamLeftRunning ==
    /\ Running /\ pc = "with_exit"
    /\ pc' = IF pending.cls = "KeyboardInterrupt" THEN "kbd_set" ELSE "finally_set"
    /\ UNCHANGED <<inputs, cache_file, pending, recorder, timer, transcriber, outputs,
                   trace, exit_code>>

\* leaving `with stream:`, normally or by an exception: the stream is closed
WithExit ==
    /\ Running /\ pc = "with_exit"
    /\ stream' = "closed"
    /\ Log("close_stream")
    /\ pc' = IF pending.cls = "KeyboardInterrupt" THEN "kbd_set" ELSE "finally_set"
    /\ UNCHANGED <<inputs, cache_file, pending, wave_file, recording_frames,
                   sink_frames, recording_stopped, timer, transcriber, outputs,
                   exit_code>>

\* except KeyboardInterrupt: set, print, close, sys.exit(0)
KbdSet ==
    /\ Running /\ pc = "kbd_set"
    /\ SetStopFlag
    /\ pc' = "kbd_print"
    /\ UNCHANGED <<inputs, cache_file, pending, wave_file, recording_frames,
                   sink_frames, stream, timer, transcriber, outputs, exit_code>>

KbdPrint ==
    /\ Running /\ pc = "kbd_print"
    /\ Log("cancel_notice")
    /\ pc' = "kbd_close"
    /\ UNCHANGED <<inputs, cache_file, pending, recorder, timer, transcriber, outputs,
                   exit_code>>

\* the KeyboardInterrupt handler without its sys.exit(0)
KbdClose_NoExit ==
    /\ Running /\ pc = "kbd_close"
    /\ CloseWaveFile
    /\ pending' = NoExc
    /\ pc' = "finally_set"
    /\ UNCHANGED <<inputs, cache_file, recording_frames, sink_frames, stream,
                   recording_stopped, timer, transcriber, outputs, exit_code>>

KbdClose ==
    /\ Running /\ pc = "kbd_close"
    /\ CloseWaveFile
    /\ pending' = Exc("SystemExit", "exit_0", "none")
    /\ pc' = "finally_set"
    /\ UNCHANGED <<inputs, cache_file, recording_frames, sink_frames, stream,
                   recording_stopped, timer, transcriber, outputs, exit_code>>

\* finally: recording_stopped.set(); self._close_wave_file()
FinallySet ==
    /\ Running /\ pc = "finally_set"
    /\ SetStopFlag
    /\ pc' = "finally_close"
    /\ UNCHANGED <<inputs, cache_file, pending, wave_file, recording_frames,
                   sink_frames, stream, timer, transcriber, outputs, exit_code>>

FinallyClose ==
    /\ Running /\ pc = "finally_close"
    /\ CloseWaveFile
    /\ pc' = IF pending = NoExc THEN "check_frames" ELSE "main_except"
    /\ UNCHANGED <<inputs, cache_file, pending, recording_frames, sink_frames, stream,
                   recording_stopped, timer, transcriber, outputs, exit_code>>

\* record() with the frame check never firing (recording_frames < 0)
CheckFrames_Never ==
    /\ Running /\ pc = "check_frames"
    /\ IF recording_frames < 0
         THEN /\ pending' = Exc("ValueError", "EmptyRecordingError", "none")
              /\ pc' = "main_except"
         ELSE /\ pc' = "init_transcriber"
              /\ UNCHANGED pending
    /\ UNCHANGED <<inputs, cache_file, recorder, timer, transcriber, outputs, trace,
                   exit_code>>

\* if self.recording_frames == 0: raise ValueError; return self.audio_file_path
CheckFrames ==
    /\ Running /\ pc = "check_frames"
    /\ IF recording_frames = 0
         THEN /\ pending' = Exc("ValueError", "EmptyRecordingError", "none")
              /\ pc' = "main_except"
         ELSE /\ pc' = "init_transcriber"
              /\ UNCHANGED pending
    /\ UNCHANGED <<inputs, cache_file, recorder, timer, transcriber, outputs, trace,
                   exit_code>>

\* ------------------------------------------------------ the display thread
\* update_timer: while not recording_stopped.is_set(): print; sleep(1)
TimerCheck ==
    /\ Running /\ timer_pc = "check"
    /\ IF recording_stopped
         THEN timer_pc' = "done"
         ELSE /\ timer_lines < MaxTicks
              /\ timer_pc' = "print"
    /\ UNCHANGED <<inputs, cache_file, pc, pending, recorder, timer_lines, transcriber,
                   outputs, trace, exit_code>>

TimerPrint ==
    /\ Running /\ timer_pc = "print"
    /\ timer_lines' = timer_lines + 1
    /\ timer_pc' = "sleep"
    /\ UNCHANGED <<inputs, cache_file, pc, pending, recorder, transcriber, outputs,
                   trace, exit_code>>

TimerWake ==
    /\ Running /\ timer_pc = "sleep"
    /\ timer_pc' = "check"
    /\ UNCHANGED <<inputs, cache_file, pc, pending, recorder, timer_lines, transcriber,
                   outputs, trace, exit_code>>

\* ------------------------------------------------------ the audio callback
\* _audio_callback, called by the stream while it is active
AudioCallback ==
    /\ Running /\ stream = "active"
    /\ \E frames \in 1..MaxFrames :
         /\ recording_frames + frames <= MaxFrames
         /\ IF wave_file = "open"
              THEN /\ sink_frames' = sink_frames + frames
                   /\ recording_frames' = recording_frames + frames
              ELSE UNCHANGED <<sink_frames, recording_frames>>
    /\ UNCHANGED <<inputs, cache_file, pc, pending, wave_file, stream,
                   recording_stopped, timer, transcriber, outputs, trace, exit_code>>

\* the handlers of main() without their sys.exit(1)
MainExcept_NoExit ==
    /\ Running /\ pc = "main_except"
    /\ IF pending.cls = "SystemExit"
         THEN /\ exit_code' = IF pending.kind = "exit_0" THEN 0 ELSE 1
              /\ UNCHANGED trace
         ELSE /\ exit_code' = 0
              /\ IF pending.cls \in {"RuntimeError", "ValueError"}
                   THEN Log("failure_line")
                   ELSE Log("unexpected_error_line")
    /\ pc' = "exited"
    /\ UNCHANGED <<inputs, cache_file, pending, recorder, timer, transcriber, outputs>>

\* ------------------------------------------------------------ main: except
\* except (RuntimeError, ValueError) / except Exception: print, sys.exit(1);
\* SystemExit is no Exception and leaves main() with its own code
MainExcept ==
    /\ Running /\ pc = "main_except"
    /\ IF pending.cls = "SystemExit"
         THEN /\ exit_code' = IF pending.kind = "exit_0" THEN 0 ELSE 1
              /\ UNCHANGED trace
         ELSE /\ exit_code' = 1
              /\ IF pending.cls \in {"RuntimeError", "ValueError"}
                   THEN Log("failure_line")
                   ELSE Log("unexpected_error_line")
    /\ pc' = "exited"
    /\ UNCHANGED <<inputs, cache_file, pending, recorder, timer, transcriber, outputs>>

\* ------------------------------------------------------------------ texts
IsSpace(c) == c = Space

RECURSIVE LStrip(_)
LStrip(t) == IF t # <<>> /\ IsSpace(Head(t)) THEN LStrip(Tail(t)) ELSE t

RECURSIVE RStrip(_)
RStrip(t) ==
    IF t # <<>> /\ IsSpace(t[Len(t)]) THEN RStrip(SubSeq(t, 1, Len(t) - 1)) ELSE t

\* str.strip()
Strip(t) == RStrip(LStrip(t))

\* sep.join(parts)
RECURSIVE Join(_, _)
Join(parts, sep) ==
    IF parts = <<>> THEN <<>>
    ELSE IF Len(parts) = 1 THEN parts[1]
    ELSE parts[1] \o sep \o Join(Tail(parts), sep)

\* a loop over segments that keeps the texts as the model yielded them
RECURSIVE TranscriptionParts_Unstripped(_)
TranscriptionParts_Unstripped(segments) ==
    IF segments = <<>> THEN <<>>
    ELSE IF Strip(Head(segments)) # <<>>
           THEN <<Head(segments)>> \o TranscriptionParts_Unstripped(Tail(segments))
           ELSE TranscriptionParts_Unstripped(Tail(segments))

\* the loop over segments: the stripped texts that are not empty, in order
RECURSIVE TranscriptionParts(_)
TranscriptionParts(segments) ==
    IF segments = <<>> THEN <<>>
    ELSE LET text == Strip(Head(segments))
         IN  IF text # <<>> THEN <<text>> \o TranscriptionParts(Tail(segments))
                            ELSE TranscriptionParts(Tail(segments))

\* what self.model.transcribe and the iteration over its segments can do:
\* yield up to MaxSegs segments, or raise
SegmentLists == UNION { [1..n -> SegmentTexts] : n \in 0..MaxSegs }
InferenceOutcomes ==
    { [ok |-> TRUE, segments |-> s] : s \in SegmentLists }
        \cup { [ok |-> FALSE, segments |-> <<>>] }

\* when transcribe() is the call under observation, how its inference ended
Observed(out) == IF call.op = "transcribe" THEN [call EXCEPT !.inference = out] ELSE call

\* ---------------------------------------------------- WhisperTranscriber
\* WhisperTranscriber(...): the import of faster_whisper and _load_model
InitTranscriber ==
    /\ Running /\ pc = "init_transcriber"
    /\ \E outcome \in {"ok", "load_failed", "import_failed"} :
         CASE outcome = "ok" ->
                /\ pc' = "transcribe"
                /\ UNCHANGED pending
           [] outcome = "load_failed" ->
                /\ pending' = Exc("RuntimeError", "ModelLoadError", "none")
                /\ pc' = "main_except"
           [] outcome = "import_failed" ->
                /\ pending' = Exc("ImportError", "ImportError", "none")
                /\ pc' = "main_except"
    /\ UNCHANGED <<inputs, cache_file, recorder, timer, transcriber, outputs, trace,
                   exit_code>>

\* the show_progress argument of transcribe(); main() passes True
ShowProgress == IF call.op = "transcribe" THEN call.show_progress ELSE TRUE

\* the second component of what transcribe() returns
ElapsedTotal == <<"elapsed_total">>
TranscriptionTime == IF ShowProgress THEN ElapsedTotal ELSE None

\* transcribe(show_progress=True): the queue, the event, the worker thread
StartWorker ==
    /\ Running /\ pc = "transcribe"
    /\ ShowProgress
    /\ progress_queue' = <<>>
    /\ transcription_complete' = FALSE
    /\ worker_pc' = "infer"
    /\ pc' = "poll"
    /\ UNCHANGED <<inputs, cache_file, pending, recorder, timer, worker_out,
                   progress_lines, handoff, transcription, outputs, trace, exit_code>>

\* a worker that swallows the failure of the inference and has no parts
WorkerInfer_LosesError ==
    /\ Running /\ worker_pc = "infer"
    /\ \E out \in InferenceOutcomes :
         /\ call' = Observed(out)
         /\ worker_out' = <<"result", TranscriptionParts(out.segments)>>
    /\ worker_pc' = "put"
    /\ UNCHANGED <<args, env, config_file, cache_file, pc, pending, recorder, timer, progress_queue,
                   transcription_complete, progress_lines, handoff, transcription,
                   outputs, trace, exit_code>>

\* transcribe_worker: the try block up to the put
WorkerInfer ==
    /\ Running /\ worker_pc = "infer"
    /\ \E out \in InferenceOutcomes :
         /\ call' = Observed(out)
         /\ worker_out' = IF out.ok
                            THEN <<"result", TranscriptionParts(out.segments)>>
                            ELSE <<"error", "InferenceError">>
    /\ worker_pc' = "put"
    /\ UNCHANGED <<args, env, config_file, cache_file, pc, pending, recorder, timer, progress_queue,
                   transcription_complete, progress_lines, handoff, transcription,
                   outputs, trace, exit_code>>

\* a worker whose error path falls through to the put of the result
WorkerPut_Both ==
    /\ Running /\ worker_pc = "put"
    /\ LET items == IF worker_out[1] = "error"
                      THEN <<worker_out, <<"result", <<>>>>>>
                      ELSE <<worker_out>>
       IN  /\ progress_queue' = progress_queue \o items
           /\ handoff' = handoff \o [i \in DOMAIN items |->
                             [op |-> "put", by |-> "worker", kind |-> items[i][1]]]
    /\ worker_pc' = "set"
    /\ UNCHANGED <<inputs, cache_file, pc, pending, recorder, timer, worker_out,
                   transcription_complete, progress_lines, transcription, outputs,
                   trace, exit_code>>

\* progress_queue.put(("result", parts)) or progress_queue.put(("error", e))
WorkerPut ==
    /\ Running /\ worker_pc = "put"
    /\ progress_queue' = Append(progress_queue, worker_out)
    /\ handoff' = Append(handoff, [op |-> "put", by |-> "worker", kind |-> worker_out[1]])
    /\ worker_pc' = "set"
    /\ UNCHANGED <<inputs, cache_file, pc, pending, recorder, timer, worker_out,
                   transcription_complete, progress_lines, transcription, outputs,
                   trace, exit_code>>

\* a worker without the finally: the event is set after a result only
WorkerSet_OnlyOnResult ==
    /\ Running /\ worker_pc = "set"
    /\ transcription_complete' = (worker_out[1] = "result")
    /\ worker_pc' = "done"
    /\ UNCHANGED <<inputs, cache_file, pc, pending, recorder, timer, worker_out,
                   progress_queue, progress_lines, handoff, transcription, outputs,
                   trace, exit_code>>

\* finally: transcription_complete.set()
WorkerSet ==
    /\ Running /\ worker_pc = "set"
    /\ transcription_complete' = TRUE
    /\ worker_pc' = "done"
    /\ UNCHANGED <<inputs, cache_file, pc, pending, recorder, timer, worker_out,
                   progress_queue, progress_lines, handoff, transcription, outputs,
                   trace, exit_code>>

\* while not transcription_complete.is_set(): print the elapsed time; sleep(1)
PollTick ==
    /\ Running /\ pc = "poll"
    /\ ~transcription_complete
    /\ progress_lines < MaxTicks
    /\ progress_lines' = progress_lines + 1
    /\ UNCHANGED <<inputs, cache_file, pc, pending, recorder, timer, worker_pc,
                   worker_out, progress_queue, transcription_complete, handoff,
                   transcription, outputs, trace, exit_code>>

\* the loop ends; console.print("")
PollExit ==
    /\ Running /\ pc = "poll"
    /\ transcription_complete
    /\ Log("newline")
    /\ pc' = "get"
    /\ UNCHANGED <<inputs, cache_file, pending, recorder, timer, transcriber, outputs,
                   exit_code>>

\* a transcribe() that returns the joined text without looking at it
QueueGet_EmptyReturned ==
    /\ Running /\ pc = "get"
    /\ progress_queue # <<>>
    /\ LET item == Head(progress_queue)
       IN  /\ progress_queue' = Tail(progress_queue)
           /\ handoff' = Append(handoff, [op |-> "get", by |-> "main", kind |-> item[1]])
           /\ IF item[1] = "error"
                THEN /\ pending' = Exc("RuntimeError", "TranscriptionError", item[2])
                     /\ pc' = "main_except"
                     /\ UNCHANGED transcription
                ELSE /\ transcription' = Join(item[2], <<Space>>)
                     /\ pc' = "copy"
                     /\ UNCHANGED pending
    /\ UNCHANGED <<inputs, cache_file, recorder, timer, worker_pc, worker_out,
                   transcription_complete, progress_lines, outputs, trace, exit_code>>

\* progress_queue.get() and the rest of transcribe(): an error item is raised
\* and wrapped, the parts are joined, an empty text is an error (wrapped too)
QueueGet ==
    /\ Running /\ pc = "get"
    /\ progress_queue # <<>>
    /\ LET item == Head(progress_queue)
           full_transcription == Join(item[2], <<Space>>)
       IN  /\ progress_queue' = Tail(progress_queue)
           /\ handoff' = Append(handoff, [op |-> "get", by |-> "main", kind |-> item[1]])
           /\ IF item[1] = "error"
                THEN /\ pending' = Exc("RuntimeError", "TranscriptionError", item[2])
                     /\ pc' = "main_except"
                     /\ UNCHANGED transcription
                ELSE IF full_transcription = <<>>
                THEN /\ pending' = Exc("RuntimeError", "TranscriptionError",
                                       "NoSpeechDetected")
                     /\ pc' = "main_except"
                     /\ UNCHANGED transcription
                ELSE /\ transcription' = full_transcription
                     /\ pc' = "copy"
                     /\ UNCHANGED pending
    /\ UNCHANGED <<inputs, cache_file, recorder, timer, worker_pc, worker_out,
                   transcription_complete, progress_lines, outputs, trace, exit_code>>

\* transcribe(show_progress=False): inference and the loop over the segments
\* inline, then the join and the check of the empty text, all inside the try
TranscribeDirect ==
    /\ Running /\ pc = "transcribe"
    /\ ~ShowProgress
    /\ \E out \in InferenceOutcomes :
         LET full_transcription == Join(TranscriptionParts(out.segments), <<Space>>)
         IN  /\ call' = Observed(out)
             /\ IF ~out.ok
                  THEN /\ pending' = Exc("RuntimeError", "TranscriptionError",
                                         "InferenceError")
                       /\ pc' = "main_except"
                       /\ UNCHANGED transcription
                  ELSE IF full_transcription = <<>>
                  THEN /\ pending' = Exc("RuntimeError", "TranscriptionError",
                                         "NoSpeechDetected")
                       /\ pc' = "main_except"
                       /\ UNCHANGED transcription
                  ELSE /\ transcription' = full_transcription
                       /\ pc' = "copy"
                       /\ UNCHANGED pending
    /\ UNCHANGED <<args, env, config_file, cache_file, recorder, timer, worker_pc, worker_out,
                   progress_queue, transcription_complete, progress_lines, handoff,
                   outputs, trace, exit_code>>

\* ------------------------------------------------------- copy_to_clipboard
\* copy_to_clipboard without the try/except of main(): the failure propagates
CopyToClipboard_Uncaught ==
    /\ Running /\ pc = "copy"
    /\ \E ok \in BOOLEAN :
         IF ok THEN /\ clipboard' = transcription
                    /\ trace' = trace \o <<"copy", "copied_line">>
                    /\ pc' = "persist"
                    /\ UNCHANGED pending
               ELSE /\ trace' = trace \o <<"copy">>
                    /\ pending' = Exc("PyperclipException", "ClipboardError", "none")
                    /\ pc' = "main_except"
                    /\ UNCHANGED clipboard
    /\ UNCHANGED <<inputs, cache_file, recorder, timer, transcriber, store, stdout,
                   exit_code>>

\* copy_to_clipboard printing its confirmation on stdout_console
CopyToClipboard_OnStdout ==
    /\ Running /\ pc = "copy"
    /\ \E ok \in BOOLEAN :
         IF ok THEN /\ clipboard' = transcription
                    /\ stdout' = Append(stdout, <<"c", "o", "p", "i", "e", "d">>)
                    /\ trace' = trace \o <<"copy", "copied_line">>
               ELSE /\ trace' = trace \o <<"copy", "clipboard_warning">>
                    /\ UNCHANGED <<clipboard, stdout>>
    /\ pc' = "persist"
    /\ UNCHANGED <<inputs, cache_file, pending, recorder, timer, transcriber, store,
                   exit_code>>

\* main(): try: copy_to_clipboard(transcription) except Exception: warning
CopyToClipboard ==
    /\ Running /\ pc = "copy"
    /\ \E ok \in BOOLEAN :
         IF ok THEN /\ clipboard' = transcription
                    /\ trace' = trace \o <<"copy", "copied_line">>
               ELSE /\ trace' = trace \o <<"copy", "clipboard_warning">>
                    /\ UNCHANGED clipboard
    /\ pc' = "persist"
    /\ UNCHANGED <<inputs, cache_file, pending, recorder, timer, transcriber, store,
                   stdout, exit_code>>

\* ---------------------------------------------------------- save_recording
\* datetime.now() of main(), as strftime("%Y%m%d%H%M") renders it
RecordedAt == <<"2", "0", "2", "6", "1", "1", "0", "2", "2", "2", "1", "2">>

UpperCase == <<"A", "B", "C", "D", "E", "F", "G", "H", "I", "J", "K", "L", "M",
               "N", "O", "P", "Q", "R", "S", "T", "U", "V", "W", "X", "Y", "Z">>
LowerCase == <<"a", "b", "c", "d", "e", "f", "g", "h", "i", "j", "k", "l", "m",
               "n", "o", "p", "q", "r", "s", "t", "u", "v", "w", "x", "y", "z">>
Digits == {"0", "1", "2", "3", "4", "5", "6", "7", "8", "9"}

\* str.lower(), one character
LowerChar(c) ==
    IF \E i \in DOMAIN UpperCase : UpperCase[i] = c
      THEN LowerCase[CHOOSE i \in DOMAIN UpperCase : UpperCase[i] = c]
      ELSE c

Lower(t) == [i \in DOMAIN t |-> LowerChar(t[i])]

\* re.sub(r"[^a-z0-9 ]", "", t)
SlugChar(c) == c \in {LowerCase[i] : i \in DOMAIN LowerCase} \cup Digits \cup {Space}
StripNonSlug(t) == SelectSeq(t, SlugChar)

\* str.split(): the maximal runs of characters that are not spaces
RECURSIVE SplitFrom(_, _)
SplitFrom(t, word) ==
    IF t = <<>> THEN (IF word = <<>> THEN <<>> ELSE <<word>>)
    ELSE IF IsSpace(Head(t))
      THEN (IF word = <<>> THEN <<>> ELSE <<word>>) \o SplitFrom(Tail(t), <<>>)
      ELSE SplitFrom(Tail(t), Append(word, Head(t)))
Split(t) == SplitFrom(t, <<>>)

\* words[:5]
MaxSlugWords == 5
NoSpeech == <<"n", "o", "_", "s", "p", "e", "e", "c", "h">>

Slug(text) ==
    LET words == Split(StripNonSlug(Lower(text)))
    IN  IF words # <<>>
          THEN Join(SubSeq(words, 1, IF Len(words) < MaxSlugWords
                                       THEN Len(words) ELSE MaxSlugWords), <<"_">>)
          ELSE NoSpeech

\* datetime.now(): the minute strftime("%Y%m%d%H%M") renders, and the rest,
\* which only isoformat() renders
Now == [minute |-> RecordedAt, second |-> "00"]
StrfTime(recorded_at) == recorded_at.minute
IsoFormat(recorded_at) == recorded_at.minute \o <<":", recorded_at.second>>

StemAt(recorded_at, text) == StrfTime(recorded_at) \o <<"_">> \o Slug(text)

\* writing a file of save_dir: a file of that name is replaced
WriteFile(files, name, kind, content) ==
    { f \in files : f.name # name }
        \cup { [name |-> name, kind |-> kind, content |-> content] }

\* what shutil.copy2 writes: the bytes of the cached recording
AudioCopy == [copy_of |-> "last_recording.wav"]

\* save_recording without the try/except of main(): a failing mkdir propagates
SaveRecording_Uncaught ==
    /\ Running /\ pc = "persist"
    /\ \E mkdir_ok \in BOOLEAN :
         IF ~mkdir_ok
           THEN /\ trace' = trace \o <<"save">>
                /\ pending' = Exc("OSError", "PersistError", "none")
                /\ pc' = "main_except"
                /\ UNCHANGED store
           ELSE /\ store' = WriteFile(store, StemAt(Now, transcription), "wav", AudioCopy)
                /\ trace' = trace \o <<"save">>
                /\ pc' = "print"
                /\ UNCHANGED pending
    /\ UNCHANGED <<inputs, cache_file, recorder, timer, transcriber, clipboard, stdout,
                   exit_code>>

\* json.dumps: a dict becomes an object with the same keys, None becomes null
JsonNull == <<"null">>

\* a dump that leaves None as it is
JsonDumps_NoneKept(metadata) == metadata

JsonDumps(metadata) ==
    [k \in DOMAIN metadata |-> IF metadata[k] = None THEN JsonNull ELSE metadata[k]]

\* what _get_audio_duration returns when it can read the file
Duration == <<"1.5">>

\* save_recording after its mkdir: the copy of the audio and the write of the
\* sidecar, each of which may fail into a warning of its own
SaveFiles(files, text, model_name, language, audio_duration, transcription_time, recorded_at, wav_ok, json_ok) ==
    LET stem == StemAt(recorded_at, text)
        wav_name == stem \o <<".", "w", "a", "v">>
        json_name == stem \o <<".", "j", "s", "o", "n">>
        metadata == [text |-> text,
                     model |-> model_name,
                     language |-> language,
                     recorded_at |-> IsoFormat(recorded_at),
                     audio_duration_seconds |-> audio_duration,
                     transcription_time_seconds |-> transcription_time,
                     wav_file |-> wav_name]
        with_wav == IF wav_ok THEN WriteFile(files, wav_name, "wav", AudioCopy)
                              ELSE files
    IN  IF json_ok THEN WriteFile(with_wav, json_name, "json", JsonDumps(metadata))
                   ELSE with_wav

\* main(): try: save_recording(...) except Exception: warning.  In
\* save_recording the mkdir may raise (into main); the copy of the audio and
\* the write of the sidecar each fail into a warning of their own.  The
\* audio duration is what _get_audio_duration returned: a number, or None.
SaveRecording ==
    /\ Running /\ pc = "persist"
    /\ \E mkdir_ok \in BOOLEAN, wav_ok \in BOOLEAN, json_ok \in BOOLEAN,
          audio_duration \in {None, Duration} :
         LET cfg == LoadConfig(config_file).value
         IN  IF ~mkdir_ok
               THEN /\ trace' = trace \o <<"save", "save_warning">>
                    /\ UNCHANGED store
               ELSE /\ store' = SaveFiles(store, transcription,
                                          ResolvedModel(args.model, env, cfg),
                                          ResolvedLanguage(args.language, env, cfg),
                                          audio_duration, TranscriptionTime, Now,
                                          wav_ok, json_ok)
                    /\ trace' = trace \o <<"save">>
                                  \o (IF wav_ok THEN <<>> ELSE <<"save_wav_warning">>)
                                  \o (IF json_ok THEN <<>> ELSE <<"save_json_warning">>)
    /\ pc' = "print"
    /\ UNCHANGED <<inputs, cache_file, pending, recorder, timer, transcriber, clipboard,
                   stdout, exit_code>>

\* stdout_console.print(transcription)
PrintTranscript ==
    /\ Running /\ pc = "print"
    /\ stdout' = Append(stdout, transcription)
    /\ Log("transcript")
    /\ pc' = "return"
    /\ UNCHANGED <<inputs, cache_file, pending, recorder, timer, transcriber, clipboard,
                   store, exit_code>>

\* main() returns: the process exits with code 0
MainReturn ==
    /\ Running /\ pc = "return"
    /\ pc' = "done"
    /\ exit_code' = 0
    /\ UNCHANGED <<inputs, cache_file, pending, recorder, timer, transcriber, outputs,
                   trace>>

Next ==
    \/ ListModels \/ MainStart
    \/ ValidateAudioDevice \/ PrepareWaveFile \/ OpenStream \/ EnterStream
    \/ StartTimer \/ InputEnter \/ InputEOF \/ Interrupt \/ SetStop \/ JoinTimer
    \/ ClearLine \/ WithExit \/ KbdSet \/ KbdPrint \/ KbdClose
    \/ FinallySet \/ FinallyClose \/ CheckFrames
    \/ TimerCheck \/ TimerPrint \/ TimerWake
    \/ AudioCallback
    \/ InitTranscriber \/ StartWorker \/ WorkerInfer \/ WorkerPut \/ WorkerSet
    \/ PollTick \/ PollExit \/ QueueGet
    \/ CopyToClipboard \/ SaveRecording \/ PrintTranscript \/ MainReturn
    \/ MainExcept

Spec == Init /\ [][Next]_vars

\* transcribe() called on its own, in either mode, on a loaded transcriber
InitTranscribe ==
    /\ args = [last |-> FALSE, list_models |-> FALSE, channels |-> 1,
               sample_rate |-> 16000,
               model |-> None, language |-> None]
    /\ env = NoEnv
    /\ config_file = NoFile
    /\ call \in [op : {"transcribe"}, show_progress : BOOLEAN,
                  inference : {[ok |-> FALSE, segments |-> <<>>]}]
    /\ Idle("transcribe")

NextTranscribe ==
    \/ StartWorker \/ WorkerInfer \/ WorkerPut \/ WorkerSet
    \/ PollTick \/ PollExit \/ QueueGet
    \/ TranscribeDirect

TransSpec == InitTranscribe /\ [][NextTranscribe]_vars

\* the worker thread and the caller both keep running: a put, a set, the end
\* of the polling loop and a get that can happen do happen
FairTransSpec ==
    /\ TransSpec
    /\ WF_vars(WorkerPut) /\ WF_vars(WorkerSet)
    /\ WF_vars(PollExit) /\ WF_vars(QueueGet)

\* the calls main() makes after a transcription return or raise: they do not hang
FairSpec ==
    /\ Spec
    /\ WF_vars(CopyToClipboard) /\ WF_vars(SaveRecording)
    /\ WF_vars(PrintTranscript) /\ WF_vars(MainReturn)

\* ------------------------------------------------------------------ stages
InTrace(e) == \E i \in DOMAIN trace : trace[i] = e
Count(e) == Cardinality({i \in DOMAIN trace : trace[i] = e})
Last(q) == q[Len(q)]

\* the positions of the main control flow inside record(), inside the
\* construction and use of the transcriber, and after transcribe() returned
RecordPcs ==
    {"validate", "prepare", "open_stream", "enter_stream", "start_timer",
     "wait_input", "set_stop", "join", "clear", "with_exit", "kbd_set",
     "kbd_print", "kbd_close", "finally_set", "finally_close", "check_frames"}
TranscribePcs == {"init_transcriber", "transcribe", "poll", "get"}
AfterTranscribePcs == {"copy", "persist", "print", "return", "done"}

\* the stage in which a failure of that kind is raised
StageOfFailure(kind) ==
    CASE kind \in {"ModelLoadError", "ImportError", "TranscriptionError"} -> "Transcribing"
      [] kind = "ClipboardError" -> "Copying"
      [] kind = "PersistError" -> "Persisting"
      [] OTHER -> "Capturing"

\* the stage of the pipeline: Capturing (a recording, or locating the last
\* one), Transcribing, Copying, Persisting (until the transcript is written),
\* Done; Failed is an exit with code 1, Cancelled the exit of an interrupt
Stage ==
    IF args.list_models THEN "Listing" ELSE
    CASE pc = "start" \/ pc \in RecordPcs -> "Capturing"
      [] pc \in TranscribePcs -> "Transcribing"
      [] pc = "copy" -> "Copying"
      [] pc \in {"persist", "print"} -> "Persisting"
      [] pc \in {"return", "done"} -> "Done"
      [] pc = "main_except" -> StageOfFailure(pending.kind)
      [] pc = "exited" -> IF exit_code = 0 THEN "Cancelled" ELSE "Failed"

CopyAttempted == InTrace("copy")
SaveAttempted == InTrace("save")
SidecarSaved == \E f \in store : f.kind = "json"

\* ------------------------------------------------------------------ claims
\* C1: once the transcription succeeded, a failing clipboard copy and a
\* failing save each end in a warning: whatever the two outcomes, the save is
\* attempted after the copy, no exception is left pending, the run reaches
\* the end of main() and the exit code is 0.
C1_Safety ==
    /\ CopyAttempted =>
         /\ pc \in {"persist", "print", "return", "done"}
         /\ pending = NoExc
         /\ exit_code \in {-1, 0}
         /\ clipboard = <<>> => InTrace("clipboard_warning")
    /\ pc \in {"print", "return", "done"} =>
         /\ SaveAttempted
         /\ \E i, j \in DOMAIN trace : i < j /\ trace[i] = "copy" /\ trace[j] = "save"
         /\ ~SidecarSaved => InTrace("save_warning") \/ InTrace("save_json_warning")
    /\ pc = "done" => exit_code = 0

C1_CopyAndSaveFailuresAreWarnings ==
    /\ []C1_Safety
    /\ (pc = "copy") ~> (pc = "done" /\ exit_code = 0 /\ SaveAttempted)

C1_Witness ==
    /\ pc = "done" /\ exit_code = 0
    /\ InTrace("clipboard_warning") /\ InTrace("save_warning")

\* C2: the transcript is printed on stdout exactly once, after the copy and
\* the save have both been attempted and are over, and it is the last thing
\* the main control flow emits; every run that gets past transcribe() and
\* ends has printed it.
C2_TranscriptPrintedOnceAndLast ==
    /\ Len(stdout) <= 1
    /\ pc \in {"copy", "persist", "print"} => stdout = <<>>
    /\ pc \in {"return", "done"} => stdout # <<>>
    /\ stdout # <<>> =>
         /\ pc \in {"return", "done"}
         /\ stdout = <<transcription>> /\ transcription # <<>>
         /\ Last(trace) = "transcript" /\ Count("transcript") = 1
         /\ CopyAttempted /\ SaveAttempted

C2_Witness ==
    /\ pc = "done" /\ args.last
    /\ stdout = <<transcription>>
    /\ InTrace("save_wav_warning")

\* C3: a failure of the capture (device, stream initialisation, no frames) or
\* of the transcription (model load, inference, no speech) aborts the run:
\* nothing is copied, saved or printed on stdout, then or later, and the
\* process ends with a failure line and exit code 1.
FatalKinds ==
    {"DeviceError", "StreamInitError", "EmptyRecordingError", "ModelLoadError",
     "TranscriptionError"}

C3_FatalFailuresAbort ==
    pending.kind \in FatalKinds =>
      /\ pc \in {"main_except", "exited"}
      /\ clipboard = <<>> /\ store = {} /\ stdout = <<>>
      /\ ~CopyAttempted /\ ~SaveAttempted
      /\ pc = "exited" => exit_code = 1 /\ Last(trace) = "failure_line"

C3_Witness ==
    /\ pc = "exited" /\ exit_code = 1
    /\ pending.kind = "TranscriptionError" /\ pending.cause = "NoSpeechDetected"

\* C4: the stage only moves forward, one stage at a time, through Capturing,
\* Transcribing, Copying, Persisting, Done; Failed is entered from Capturing
\* or Transcribing only; once the copy has been attempted the run is never
\* Failed, and from Copying it always reaches Done.
StageSteps ==
    { <<"Capturing", "Transcribing">>, <<"Transcribing", "Copying">>,
      <<"Copying", "Persisting">>, <<"Persisting", "Done">>,
      <<"Capturing", "Failed">>, <<"Transcribing", "Failed">>,
      <<"Capturing", "Cancelled">> }

C4_StageStep == Stage' # Stage => <<Stage, Stage'>> \in StageSteps

C4_StagesOnlyMoveForward ==
    /\ [][C4_StageStep]_vars
    /\ [](Stage \in {"Copying", "Persisting", "Done"} => exit_code \in {-1, 0})
    /\ (Stage = "Copying") ~> (pc = "done")

C4_Witness ==
    /\ pc = "done" /\ Stage = "Done"
    /\ InTrace("save_json_warning") /\ InTrace("copied_line")

\* C5: once the wave file has been opened, record() is never left with it
\* open; and a stream initialisation failure closes it and raises without
\* the stream ever having been started.
C5_SinkClosedOnEveryExit ==
    /\ (InTrace("open_sink") /\ pc \notin RecordPcs) => wave_file = "None"
    /\ pending.kind = "StreamInitError" =>
         wave_file = "None" /\ stream = "none" /\ timer_pc = "none"

\* C6: (as claimed) a capture session that has streamed and ended with no
\* frame fails with EmptyRecordingError.
SessionEnded == ~args.last /\ pc \notin RecordPcs \cup {"start"}

C6_ZeroFramesAlwaysEmptyRecording ==
    (SessionEnded /\ InTrace("close_stream") /\ recording_frames = 0) =>
        pending.kind = "EmptyRecordingError"

\* C6: (amended) a capture session stopped by the enter trigger that ended
\* with no frame fails with EmptyRecordingError, and nothing is saved; the
\* audio file is returned only when at least one frame was captured.
C6_EnterStopWithZeroFrames ==
    /\ (SessionEnded /\ InTrace("clear_line") /\ recording_frames = 0) =>
         /\ pending.kind = "EmptyRecordingError"
         /\ pc \in {"main_except", "exited"}
         /\ store = {}
    /\ (~args.last /\ pc \in TranscribePcs \cup AfterTranscribePcs) =>
         recording_frames > 0
    /\ pending.kind = "EmptyRecordingError" =>
         recording_frames = 0 /\ store = {}

C6_Witness ==
    /\ pc = "exited" /\ exit_code = 1
    /\ pending.kind = "EmptyRecordingError" /\ InTrace("clear_line")

\* C7: after an interrupt in the streaming region the stop flag is set, the
\* wave file closed, the cancellation notice printed and the process ended;
\* record() does not return: no worker is started, nothing is copied, saved
\* or printed on stdout.
Interrupted == pending.kind = "Interrupt" \/ InTrace("cancel_notice")

C7_InterruptCancelsTheRun ==
    Interrupted =>
      /\ pc \in {"with_exit", "kbd_set", "kbd_print", "kbd_close", "finally_set",
                 "finally_close", "main_except", "exited"}
      /\ worker_pc = "none" /\ transcription = <<>>
      /\ clipboard = <<>> /\ store = {} /\ stdout = <<>>
      /\ pc \in {"finally_set", "finally_close", "main_except", "exited"} =>
           /\ recording_stopped /\ wave_file = "None" /\ stream = "closed"
           /\ InTrace("cancel_notice")
           /\ pending.cls = "SystemExit"
      /\ pc = "exited" => exit_code = 0

C7_Witness ==
    /\ pc = "exited" /\ InTrace("cancel_notice")
    /\ recording_frames > 0 /\ InTrace("set_stop")

\* C8: after the enter trigger record() sets the stop flag, joins the display
\* thread, clears the line, closes the stream and closes the wave file, in
\* that order; the join is bounded: it can always return, whether or not the
\* display thread has ended.
ShutdownSteps == <<"set_stop", "join", "clear_line", "close_stream", "close_sink">>

ShutdownStepsDone ==
    CASE pc = "set_stop" -> 0
      [] pc = "join" -> 1
      [] pc = "clear" -> 2
      [] pc = "with_exit" -> 3
      [] pc \in {"finally_set", "finally_close"} -> 4
      [] OTHER -> 5

\* what record() did since the wave file was opened, a timed-out join being a join
SinceOpen ==
    [i \in 1..(Len(trace) - 1) |->
        IF trace[i + 1] = "join_timeout" THEN "join" ELSE trace[i + 1]]

C8_ShutdownOrder ==
    /\ (/\ ~args.last /\ pending = NoExc
        /\ pc \in {"set_stop", "join", "clear", "with_exit", "finally_set",
                   "finally_close", "check_frames"}) =>
         /\ trace[1] = "open_sink"
         /\ SinceOpen = SubSeq(ShutdownSteps, 1, ShutdownStepsDone)
    /\ pc = "join" => ENABLED JoinTimer

C8_Witness ==
    /\ pc = "check_frames" /\ pending = NoExc
    /\ InTrace("join_timeout") /\ timer_pc # "done"

\* C9: the display thread renders no timer line after the caller has come
\* out of the join and cleared the line.
C9_NoTimerLineAfterClear ==
    [][InTrace("clear_line") => timer_lines' = timer_lines]_vars

\* C10: in transcribe(show_progress=True) the queue gets exactly one item per
\* call, a result or an error, put by the worker; the caller takes it, once,
\* and it is the item the worker put.
Puts == SelectSeq(handoff, LAMBDA h : h.op = "put")
Gets == SelectSeq(handoff, LAMBDA h : h.op = "get")

C10_OneTerminalEvent ==
    /\ Len(Puts) <= 1 /\ Len(Gets) <= 1 /\ Len(progress_queue) <= 1
    /\ \A i \in DOMAIN handoff :
         /\ handoff[i].kind \in {"result", "error"}
         /\ handoff[i].op = "put" => handoff[i].by = "worker"
         /\ handoff[i].op = "get" => handoff[i].by = "main"
    /\ worker_pc \in {"set", "done"} => Len(Puts) = 1
    /\ transcription_complete => Len(Puts) = 1
    /\ (pc \in AfterTranscribePcs \/ pending.kind = "TranscriptionError") =>
         /\ Len(handoff) = 2
         /\ handoff[1].op = "put" /\ handoff[2].op = "get"
         /\ handoff[1].kind = handoff[2].kind
         /\ progress_queue = <<>>
         /\ pending.kind = "TranscriptionError" =>
              (handoff[2].kind = "error" <=> pending.cause = "InferenceError")

C10_Witness ==
    /\ pending.kind = "TranscriptionError" /\ pending.cause = "InferenceError"
    /\ Len(handoff) = 2 /\ handoff[2].kind = "error" /\ progress_lines = MaxTicks

\* ------------------------------------- the settings functions on their own
\* everything a call of one of the settings functions leaves alone
others == <<cache_file, pc, pending, recorder, timer, transcriber, outputs, trace,
            exit_code>>

Str(raw) == <<"\"">> \o raw \o <<"\"">>
P11 == <<"n", "e", "m", "o", "-", "p", "a", "r", "a", "k", "e", "e", "t", "-", "c", "t", "c", "-", "1", ".", "1", "b">>

\* the environments and the settings files the functions are applied in
Envs ==
    [HNS_WHISPER_MODEL : {None, <<>>, Turbo, Bogus}, HNS_LANG : {None, En},
     HNS_BACKEND : {None, Parakeet}, HNS_MODEL : {None, P11},
     HNS_DEVICE : {None, Cuda, Tpu}, platform : {"linux", "darwin"},
     acceleration : BOOLEAN]
De == <<"d", "e">>
FullFile ==
    File(<<Line("backend", Str(Parakeet)), Line("model", Str(Small)),
           Line("language", Str(De)), Line("save_dir", Str(<<"~", "/", "r">>))>>)
NullLanguageFile ==
    File(<<Line("model", Str(Small)), Line("language", <<"n", "u", "l", "l">>)>>)
TruncatedFile == File(<<Line("model", <<"\"", "s", "m">>)>>)
GarbageFile == File(<<Line("[invalid toml", <<>>)>>)
ConfigFiles ==
    { NoFile, Unreadable, File(<<>>), File(<<Line("model", Str(Small))>>), FullFile,
      NullLanguageFile, TruncatedFile, GarbageFile }

InitSettings ==
    /\ args = [last |-> FALSE, list_models |-> FALSE, channels |-> 1,
               sample_rate |-> 16000,
               model |-> None, language |-> None]
    /\ env \in Envs
    /\ config_file \in ConfigFiles
    /\ call = [op |-> "none"]
    /\ Idle("call")

\* load_config()
CallLoadConfig ==
    /\ call.op = "none"
    /\ call' = [op |-> "load_config", out |-> LoadConfig(config_file)]
    /\ UNCHANGED <<args, env, config_file, others>>

\* main(): cfg = load_config() and the three resolutions, for --model and
\* --language as given
CallResolve ==
    /\ call.op = "none"
    /\ \E model \in {None, <<>>, Base, Bogus}, language \in {None, <<"f", "r">>} :
         LET out == LoadConfig(config_file)
             cfg == out.value
         IN  call' = [op |-> "resolve", model |-> model, language |-> language,
                      raised |-> out.raised, cfg |-> cfg,
                      resolved_model |-> ResolvedModel(model, env, cfg),
                      resolved_language |-> ResolvedLanguage(language, env, cfg),
                      save_dir |-> SaveDir(env, cfg)]
    /\ UNCHANGED <<args, env, config_file, others>>

\* the selection of the backend for --backend as given
CallResolveBackend ==
    /\ call.op = "none"
    /\ \E backend \in {None, Whisper, Parakeet} :
         call' = [op |-> "resolve_backend", backend |-> backend,
                  cfg |-> LoadConfig(config_file).value,
                  resolved_backend |->
                      ResolvedBackend(backend, env, LoadConfig(config_file).value)]
    /\ UNCHANGED <<args, env, config_file, others>>

\* WhisperTranscriber._get_model_name(model_name)
CallGetModelName ==
    /\ call.op = "none"
    /\ \E model_name \in {None, <<>>, Small, Turbo, Bogus} :
         call' = [op |-> "_get_model_name", backend |-> Whisper,
                  model_name |-> model_name,
                  result |-> GetModelName(model_name, env)]
    /\ UNCHANGED <<args, env, config_file, others>>

\* ParakeetTranscriber._get_model_name(model_name)
CallParakeetGetModelName ==
    /\ call.op = "none"
    /\ \E model_name \in {None, P11, Bogus} :
         call' = [op |-> "_get_model_name", backend |-> Parakeet,
                  model_name |-> model_name,
                  result |-> ParakeetGetModelName(model_name, env)]
    /\ UNCHANGED <<args, env, config_file, others>>

\* _resolve_device(device) of either backend
CallResolveDevice ==
    /\ call.op = "none"
    /\ \E backend \in {Whisper, Parakeet}, device \in {None, Cpu, Cuda, Tpu} :
         call' = [op |-> "_resolve_device", backend |-> backend, device |-> device,
                  result |-> IF backend = Whisper
                               THEN WhisperResolveDevice(device, env)
                               ELSE [device |-> ParakeetResolveDevice(device, env),
                                     compute_type |-> "none"]]
    /\ UNCHANGED <<args, env, config_file, others>>

\* WhisperTranscriber(model_name, language): the model is loaded
CallWhisperTranscriber ==
    /\ call.op = "none"
    /\ \E model_name \in {Small, Bogus} :
         call' = [op |-> "WhisperTranscriber",
                  model_name |-> GetModelName(model_name, env),
                  loaded_on |-> LoadModel]
    /\ UNCHANGED <<args, env, config_file, others>>

NextSettings ==
    \/ CallLoadConfig \/ CallResolve \/ CallResolveBackend
    \/ CallGetModelName \/ CallParakeetGetModelName
    \/ CallResolveDevice \/ CallWhisperTranscriber

SettingsSpec == InitSettings /\ [][NextSettings]_vars

\* ------------------------------------------------------- _write_config
\* most calls of _write_config in a row
MaxWrites == 2

\* _write_config(model, language, save_dir): the file it leaves. The values
\* go between quotes as they are; a language that is empty is written null.
\* The _show_config() that follows prints and changes nothing.
WriteConfig(file, model, language, save_dir) ==
    LET given == [model |-> model, language |-> language, save_dir |-> save_dir]
        old == LoadConfig(file).value
        cfg == [k \in DOMAIN old \cup { g \in DOMAIN given : given[g] # None } |->
                   IF k \in DOMAIN given /\ given[k] # None THEN given[k] ELSE old[k]]
        model_line == IF "model" \in DOMAIN cfg
                        THEN <<Line("model", Str(cfg["model"]))>> ELSE <<>>
        language_line ==
            IF "language" \in DOMAIN cfg
              THEN <<Line("language", IF cfg["language"] # <<>>
                                        THEN Str(cfg["language"])
                                        ELSE <<"n", "u", "l", "l">>)>>
              ELSE <<>>
        save_dir_line == IF "save_dir" \in DOMAIN cfg
                           THEN <<Line("save_dir", Str(cfg["save_dir"]))>> ELSE <<>>
    IN  File(model_line \o language_line \o save_dir_line)

\* the keys of the settings file the specification recognises
ConfigKeys == {"backend", "model", "language", "save_dir"}

\* a settings file before the first update, and what it holds for each key
InitConfig ==
    /\ args = [last |-> FALSE, list_models |-> FALSE, channels |-> 1,
               sample_rate |-> 16000,
               model |-> None, language |-> None]
    /\ env = NoEnv
    /\ config_file \in {NoFile, File(<<Line("backend", Str(Parakeet))>>)}
    /\ call = [op |-> "_write_config", n |-> 0,
               latest |-> [k \in ConfigKeys |-> Get(LoadConfig(config_file).value, k)]]
    /\ Idle("call")

\* one call _write_config(model, language, save_dir), as
\* `hns config --model .. --language .. --save-dir ..` makes it
CallWriteConfig ==
    /\ call.op = "_write_config" /\ call.n < MaxWrites
    /\ \E model \in {None, Small, Base}, language \in {None, <<>>, En},
          save_dir \in {None, <<"/", "r">>, <<"C", ":", "\\", "U">>} :
         LET given == [backend |-> None, model |-> model, language |-> language,
                       save_dir |-> save_dir]
         IN  /\ config_file' = WriteConfig(config_file, model, language, save_dir)
             /\ call' = [op |-> "_write_config", n |-> call.n + 1,
                         latest |-> [k \in ConfigKeys |->
                                       IF given[k] # None THEN given[k]
                                                          ELSE call.latest[k]]]
    /\ UNCHANGED <<args, env, others>>

ConfigSpec == InitConfig /\ [][CallWriteConfig]_vars

\* ------------------------------------------ save_recording, run after run
\* most runs that save into the same directory
MaxSaves == 2

\* the minute after RecordedAt
NextMinute == <<"2", "0", "2", "6", "1", "1", "0", "2", "2", "2", "1", "3">>

InitSave ==
    /\ args = [last |-> FALSE, list_models |-> FALSE, channels |-> 1,
               sample_rate |-> 16000,
               model |-> None, language |-> None]
    /\ env = NoEnv
    /\ config_file = NoFile
    /\ call = [op |-> "save_recording", n |-> 0, raised |-> FALSE, saved |-> FALSE,
               wav_ok |-> FALSE]
    /\ Idle("call")

\* the optional values save_recording is passed, and how its three writes end
OptionalValues ==
    { [language |-> None, audio_duration |-> None, transcription_time |-> ElapsedTotal],
      [language |-> En, audio_duration |-> Duration, transcription_time |-> None],
      [language |-> En, audio_duration |-> Duration, transcription_time |-> ElapsedTotal] }
WriteOutcomes ==
    { [mkdir_ok |-> FALSE, wav_ok |-> FALSE, json_ok |-> FALSE] }
        \cup [mkdir_ok : {TRUE}, wav_ok : BOOLEAN, json_ok : BOOLEAN]

\* one call of save_recording into the directory the earlier calls saved in;
\* the clock has moved on by a second or by a minute
CallSaveRecording ==
    /\ call.op = "save_recording" /\ call.n < MaxSaves
    /\ \E text \in {<<"a">>, <<"A", "!">>}, opt \in OptionalValues,
          minute \in {RecordedAt, NextMinute}, ok \in WriteOutcomes :
         LET recorded_at == [minute |-> minute,
                             second |-> IF call.n = 0 THEN "00" ELSE "01"]
         IN  /\ store' = IF ok.mkdir_ok
                           THEN SaveFiles(store, text, Base, opt.language,
                                          opt.audio_duration, opt.transcription_time,
                                          recorded_at, ok.wav_ok, ok.json_ok)
                           ELSE store
             /\ call' = [op |-> "save_recording", n |-> call.n + 1,
                         raised |-> ~ok.mkdir_ok, saved |-> ok.json_ok,
                         wav_ok |-> ok.wav_ok,
                         text |-> text, model_name |-> Base, language |-> opt.language,
                         audio_duration |-> opt.audio_duration,
                         transcription_time |-> opt.transcription_time,
                         recorded_at |-> recorded_at]
    /\ UNCHANGED <<args, env, config_file, cache_file, pc, pending, recorder, timer,
                   transcriber, clipboard, stdout, trace, exit_code>>

SaveSpec == InitSave /\ [][CallSaveRecording]_vars

\* ------------------------------------------------ claims about transcribe()
\* transcribe() has returned its text, or has raised
TranscribeReturned == pc = "copy"
TranscribeRaised == pc = "main_except"
TranscribeEnded == TranscribeReturned \/ TranscribeRaised

\* the inference yielded segments, and none holds anything but whitespace
AllSegmentsBlank ==
    /\ call.inference.ok
    /\ \A i \in DOMAIN call.inference.segments :
         \A j \in DOMAIN call.inference.segments[i] : IsSpace(call.inference.segments[i][j])

\* C11: when every segment the model yields is empty after stripping, or it
\* yields none, transcribe() raises the no-speech failure ("Transcription
\* failed: No speech detected in audio") and returns no text, whether the
\* inference ran on the worker thread or inline.
C11_BlankSegmentsAreNoSpeech ==
    (TranscribeEnded /\ AllSegmentsBlank) =>
        /\ TranscribeRaised
        /\ pending.cause = "NoSpeechDetected"
        /\ transcription = <<>>

C11_Witness ==
    /\ ~call.show_progress
    /\ TranscribeRaised /\ AllSegmentsBlank
    /\ Len(call.inference.segments) = MaxSegs
    /\ pending.cause = "NoSpeechDetected"

\* the texts of the segments, stripped, those that are not empty, in order
StrippedTexts(segs) ==
    SelectSeq([i \in DOMAIN segs |-> Strip(segs[i])], LAMBDA t : t # <<>>)

\* the texts with one space between each two
RECURSIVE SpaceJoined(_)
SpaceJoined(texts) ==
    IF texts = <<>> THEN <<>>
    ELSE IF Len(texts) = 1 THEN Head(texts)
    ELSE Head(texts) \o <<" ">> \o SpaceJoined(Tail(texts))

\* C12: the text transcribe() returns is never empty and is the stripped,
\* non-empty texts of the segments, in their order, with one space between
\* them; it is that function of the segments in both modes.
C12_TextIsJoinedStrippedSegments ==
    TranscribeReturned =>
        /\ call.inference.ok
        /\ transcription # <<>>
        /\ transcription = SpaceJoined(StrippedTexts(call.inference.segments))

C12_Witness ==
    /\ call.show_progress
    /\ TranscribeReturned
    /\ call.inference.segments = << <<" ", "B", "!", " ">>, <<"a">> >>
    /\ transcription = <<"B", "!", " ", "a">>

\* C13: when the inference raises, on the worker thread or inline,
\* transcribe() raises the RuntimeError "Transcription failed: ..." made from
\* that failure; it never returns a text and never raises anything else.
C13_InferenceFailureIsWrapped ==
    /\ (TranscribeEnded /\ ~call.inference.ok) =>
          /\ TranscribeRaised
          /\ pending = Exc("RuntimeError", "TranscriptionError", "InferenceError")
          /\ transcription = <<>>
    /\ (worker_pc \in {"put", "set", "done"} /\ ~call.inference.ok /\ ~TranscribeEnded) =>
          \/ worker_out = <<"error", "InferenceError">> /\ worker_pc = "put"
          \/ \E i \in DOMAIN handoff : handoff[i].kind = "error"

C13_Witness ==
    /\ call.show_progress
    /\ TranscribeRaised /\ ~call.inference.ok
    /\ pending = Exc("RuntimeError", "TranscriptionError", "InferenceError")
    /\ Len(handoff) = 2

RECURSIVE FirstProvided(_, _)
FirstProvided(layers, default) ==
    IF layers = <<>> THEN default
    ELSE IF Head(layers) \notin {None, <<>>} THEN Head(layers)
    ELSE FirstProvided(Tail(layers), default)

C16_ModelLoadedOnResolvedDevice ==
    call.op = "WhisperTranscriber" =>
        call.loaded_on = WhisperResolveDevice(None, env)

\* the settings files load_config cannot read as TOML, or cannot read
UnusableFiles == {Unreadable, NullLanguageFile, TruncatedFile, GarbageFile}

\* C17: load_config never raises; without a file, and with a file that
\* cannot be opened or parsed, it returns the empty mapping, and the settings
\* main() resolves are then those it resolves without a file.
C17_LoadConfigNeverRaises ==
    /\ call.op = "load_config" =>
          /\ ~call.out.raised
          /\ config_file \in UnusableFiles \cup {NoFile} => DOMAIN call.out.value = {}
          /\ config_file \in UnusableFiles <=> call.out.warned
    /\ call.op = "resolve" =>
          /\ ~call.raised
          /\ config_file \in UnusableFiles \cup {NoFile} =>
                /\ call.resolved_model =
                      FirstProvided(<<call.model, env.HNS_WHISPER_MODEL>>, Base)
                /\ call.resolved_language =
                      FirstProvided(<<call.language, env.HNS_LANG>>, None)
                /\ call.save_dir = DefaultSaveDir(env.platform)

C17_Witness ==
    /\ call.op = "resolve" /\ config_file = TruncatedFile
    /\ ~call.raised /\ DOMAIN call.cfg = {}
    /\ call.model = None /\ env.HNS_WHISPER_MODEL = None
    /\ call.resolved_model = Base

\* C18: after any sequence of _write_config calls, load_config returns for
\* each of backend, model, language and save_dir the latest value written
\* for it that was not None (or what the file held before, or nothing).
C18_ReadBackLatestValues ==
    call.op = "_write_config" =>
        \A k \in ConfigKeys : Get(LoadConfig(config_file).value, k) = call.latest[k]

\* ------------------------------------------ claims about save_recording
\* a file name without its extension of n characters
StemOf(name, n) == SubSeq(name, 1, Len(name) - n)

\* C19: no save removes or replaces a file an earlier run wrote, and a save
\* whose copy and sidecar both succeed adds exactly two files, an audio copy
\* and a sidecar with the same stem.
C19_StoreIsAppendOnly ==
    [][/\ store \subseteq store'
       /\ (call'.saved /\ call'.wav_ok) =>
             \E w, j \in store' \ store :
                /\ store' \ store = {w, j}
                /\ w.kind = "wav" /\ j.kind = "json"
                /\ StemOf(w.name, 4) = StemOf(j.name, 5)]_vars

C21_ExitCodes ==
    /\ exit_code \in {-1, 0, 1}
    /\ pc = "done" <=> (exit_code = 0 /\ ~Interrupted /\ ~args.list_models)
    /\ pc = "listed" <=> (exit_code = 0 /\ args.list_models)
    /\ pc = "done" => pending = NoExc /\ Last(trace) = "transcript"
    /\ pc = "exited" <=> (exit_code = 1 \/ (exit_code = 0 /\ Interrupted))
    /\ (pc = "exited" /\ pending.kind \in FatalKinds) =>
          exit_code = 1 /\ Last(trace) = "failure_line"
    /\ (pc = "exited" /\ InTrace("no_previous_recording")) =>
          exit_code = 1 /\ args.last /\ ~cache_file
    /\ (pc = "exited" /\ pending.cls \notin {"RuntimeError", "ValueError", "SystemExit"}) =>
          exit_code = 1 /\ Last(trace) = "unexpected_error_line"
    /\ pending # NoExc => pc \notin TranscribePcs \cup AfterTranscribePcs \cup {"done"}

C21_Witness ==
    /\ pc = "exited" /\ exit_code = 1
    /\ pending.kind = "InputClosed"
    /\ Last(trace) = "unexpected_error_line"

\* C22: a --list-models run only prints: no model is loaded, no stream, wave
\* file or thread is created, nothing reaches the clipboard, the store or
\* stdout, the process ends with code 0, and the models listed are those of
\* the backend the settings select (HNS_BACKEND, else the settings file, else
\* whisper).
C22_ListModelsOnlyPrints ==
    args.list_models =>
        /\ pc \in {"start", "listed"}
        /\ pending = NoExc
        /\ wave_file = "None" /\ stream = "none" /\ recording_frames = 0
        /\ timer_pc = "none" /\ worker_pc = "none"
        /\ clipboard = <<>> /\ store = {} /\ stdout = <<>>
        /\ pc = "listed" =>
              /\ exit_code = 0
              /\ trace = <<"whisper_models">> =>
                    ResolvedBackend(None, env, LoadConfig(config_file).value) = Whisper

\* C23: under --last no recording is made: no device is validated, no wave
\* file opened, no stream or display thread started, no frame written, and
\* the cached recording stays as it is.  Without a cached recording the run
\* ends with code 1 and nothing is transcribed, copied, saved or printed on
\* stdout; with one, the run goes on to the transcriber, and a run that
\* completes has copied (or warned), saved (or warned) and printed.
C23_LastNeverRecords ==
    (args.last /\ ~args.list_models) =>
        /\ pc \notin RecordPcs
        /\ wave_file = "None" /\ stream = "none" /\ timer_pc = "none"
        /\ recording_frames = 0 /\ sink_frames = 0
        /\ ~InTrace("open_sink")
        /\ ~cache_file =>
              /\ pc \in {"start", "main_except", "exited"}
              /\ worker_pc = "none" /\ transcription = <<>>
              /\ clipboard = <<>> /\ store = {} /\ stdout = <<>>
              /\ pc = "exited" => exit_code = 1 /\ trace = <<"no_previous_recording">>
        /\ cache_file =>
              /\ ~InTrace("no_previous_recording")
              /\ pc \in {"start"} \cup TranscribePcs \cup AfterTranscribePcs
                        \cup {"done", "main_except", "exited"}
              /\ pc \in {"main_except", "exited"} =>
                    pending.kind \in {"ModelLoadError", "ImportError", "TranscriptionError"}
              /\ pc = "done" =>
                    /\ CopyAttempted /\ SaveAttempted
                    /\ stdout = <<transcription>>

C23_Witness ==
    /\ args.last /\ cache_file /\ pc = "done"
    /\ clipboard = transcription /\ SidecarSaved
    /\ \E f \in store : f.kind = "wav"

\* C24: in transcribe(show_progress=True), once the inference has returned or
\* raised, the worker puts its item and then sets the event, on both paths;
\* the polling loop of the caller ends, its get finds the item, and
\* transcribe() returns or raises.
C24_TranscribeTerminates ==
    /\ [](transcription_complete => Len(Puts) = 1 /\ worker_pc = "done")
    /\ [](pc = "get" => progress_queue # <<>> /\ transcription_complete)
    /\ [](worker_pc = "done" => transcription_complete)
    /\ (pc = "poll" /\ worker_pc # "infer") ~> TranscribeEnded

C24_Witness ==
    /\ call.show_progress /\ TranscribeEnded
    /\ worker_pc = "done" /\ transcription_complete
    /\ progress_lines = MaxTicks /\ progress_queue = <<>>
    /\ Len(Gets) = 1

\* C25: while the stream runs the wave file is open, so every chunk the
\* callback gets is written to an open file; a stream that was started is
\* closed before the wave file is closed, on every path; the frame counter
\* always equals the number of frames written since the wave file was opened,
\* and both are zero when the stream is created.
C25_ChunksOnlyToOpenSink ==
    /\ stream = "active" => wave_file = "open"
    /\ InTrace("close_sink") => stream # "active"
    /\ \A i, j \in DOMAIN trace :
         (trace[i] = "close_sink" /\ trace[j] = "close_stream") => j < i
    /\ (stream = "closed" /\ pc \notin RecordPcs) => wave_file = "None"
    /\ recording_frames = sink_frames
    /\ pc = "open_stream" => recording_frames = 0 /\ wave_file = "open"
    /\ args.last => sink_frames = 0

C25_Witness ==
    /\ pc = "init_transcriber" /\ ~args.last
    /\ stream = "closed" /\ wave_file = "None"
    /\ sink_frames = MaxFrames /\ recording_frames = MaxFrames
    /\ InTrace("close_stream") /\ InTrace("close_sink")

\* C26: the model named in a saved sidecar is the model the transcriber
\* loaded: the validated name, which is the default when the requested name
\* is not a valid one.
C26_SidecarNamesLoadedModel ==
    \A f \in store :
        f.kind = "json" =>
            f.content.model =
                GetModelName(ResolvedModel(args.model, env, LoadConfig(config_file).value), env)
====
